---- MODULE Spec2Model ----
(***************************************************************************)
(* Model of PyBuzz/pybuzz/buzz_utility.c: the bridge between a host        *)
(* (Python) process and a set of Buzz virtual machines.                    *)
(*                                                                         *)
(* The file-scope statics of buzz_utility.c are the variables below, under *)
(* their C names.  A buzzvm_t is a pointer: VM instances live in `heap`    *)
(* (a sequence, the k-th element being the k-th instance buzzvm_new has    *)
(* returned) and a pointer is an index into it, 0 being NULL.              *)
(*                                                                         *)
(* The Buzz VM library and the Python runtime are external.  The fields of *)
(* a VM kept here are the ones the bridge reads or hands over: its state,  *)
(* its inbound and outbound message queues, its neighbor table and its     *)
(* global symbols.  A script is the environment: what a script does in a   *)
(* call of buzz_script_step is an input of that action.                    *)
(***************************************************************************)
EXTENDS Integers, Sequences, FiniteSets, TLC

VARIABLES
  all_virtual_machines, \* buzzvm_t all_virtual_machines[MAX_NUM_VIRTUAL_MACHINES]
  vm,                   \* buzzvm_t vm: the "current" VM
  num_virtual_machines, \* int num_virtual_machines
  vm_stepped,           \* int vm_stepped[MAX_NUM_VIRTUAL_MACHINES]
  python_funcs,         \* PyObject* python_funcs[20]
  python_initialized,   \* int python_initialized
  message_size,         \* int message_size
  BO_FNAME,             \* char* BO_FNAME
  BO_BUF,               \* uint8_t* BO_BUF
  DBG_INFO,             \* buzzdebug_t DBG_INFO
  heap,                 \* the VM instances buzzvm_new has allocated
  oob,                  \* indices >= MAX_NUM_VIRTUAL_MACHINES the registry array was written at
  crashed,              \* the process has died (NULL dereference, abort)
  ret,                  \* the last call of the bridge and what it returned
  hist,                 \* per VM instance: what the bridge has done to it so far
  hook,                 \* the last dispatch of a hook trampoline
  reg,                  \* per hook slot: the last register_hook call on it
  diag                  \* the diagnostics emitted so far by the last call

vars == << all_virtual_machines, vm, num_virtual_machines, vm_stepped,
           python_funcs, python_initialized, message_size, BO_FNAME, BO_BUF,
           DBG_INFO, heap, oob, crashed, ret, hist, hook, reg, diag >>

(***************************************************************************)
(* Program constants.                                                      *)
(***************************************************************************)
MAX_NUM_VIRTUAL_MACHINES == 15

HOOK_CAPACITY == 20

NULL == 0

\* The C functions h0 .. h19, in the order of the array `hooks`.
hooks == << "h0", "h1", "h2", "h3", "h4", "h5", "h6", "h7", "h8", "h9",
            "h10", "h11", "h12", "h13", "h14", "h15", "h16", "h17", "h18", "h19" >>

VmSlots == 0 .. (MAX_NUM_VIRTUAL_MACHINES - 1)

(***************************************************************************)
(* Bounds of the model and the inputs the environment draws from.          *)
(***************************************************************************)
\* buzzvm_new calls in a run of the specifications that drive the VMs
MaxAlloc == 3

\* buzzvm_new calls in a run of the registry specification
MaxAllocReg == 17

\* failed buzz_script_set calls in a run of the registry specification
MaxFailedReg == 2

\* buzz_script_step calls on one VM instance
MaxSteps == 2

\* VMs loaded in a run of the message, neighbor and hook specifications
MaxVms == 2

\* feed_buzz_message calls in a run
MaxFeed == 3

\* buzz_script_step calls in a run of the hook specification
MaxStepsHook == 1

\* add_neighbor calls since the last reset_neighbors, over all VMs
MaxAdds == 2

\* buzz_script_step calls in a run of the message specification
MaxStepsMsg == 2

\* where a script can trap in one buzz_script_step call
Faults == { "none", "top", "init", "step" }

\* what the file system and the VM loader answer to one buzz_script_set call
LoadResults == { "ok", "fopen", "fread", "debug", "bcode" }

\* what the word after the registry array is, for a store past its end
Layouts == { "other", "num" }

\* the low 32 bits of a VM pointer, read as an int
GarbageInts == { -16, 48 }

\* how a double free or a use of freed memory ends
UbResults == { "crash", "survive" }

(***************************************************************************)
(* VM instances.                                                           *)
(***************************************************************************)
EmptyTable == [ k \in {} |-> << >> ]

\* the names a script of the model can have in its global symbol table
GlobalNames == { "print", "log", "True", "False", "f", "g", "x", "nope" }

\* buzzvm_new: a VM without code, empty queues, no neighbors, no globals
buzzvm_new ==
  [ freed     |-> FALSE,
    state     |-> "nocode",
    inmsgs    |-> << >>,
    outmsgs   |-> << >>,
    neighbors |-> EmptyTable,
    gsyms     |-> [ n \in GlobalNames |-> "nil" ],
    \* the global absolute_position: the table of x, y, z; << >> when not set
    position  |-> << >> ]

\* what the bridge has done to one VM instance (history, not program state)
NewHist ==
  [ steps    |-> 0,       \* buzz_script_step calls
    inits    |-> 0,       \* runs of the init sequence
    initAt   |-> 0,       \* the step call the init sequence ran in
    fed      |-> << >>,   \* feed_buzz_message calls, as called
    dlv      |-> << >>,   \* messages handed to message processing
    sent     |-> << >>,   \* payloads the script has enqueued
    got      |-> << >>,   \* payloads get_next_message has returned
    adds     |-> << >>,   \* add_neighbor calls since the last reset_neighbors
    reset    |-> FALSE,   \* reset_neighbors has been called
    cleared  |-> 0,       \* entries the table held at the last reset_neighbors
    destroys |-> 0,       \* buzzvm_destroy calls
    calls    |-> << >> ]  \* what the last buzz_script_step called, in order

NoDbg == [ owner |-> NULL, filled |-> FALSE ]

NoName == [ owner |-> NULL, freed |-> FALSE ]

NoCall == [ op |-> "none", vmid |-> 0, val |-> 0, data |-> << >> ]

NoValue == [ type |-> "nil", value |-> << >> ]

NoHook == [ called |-> FALSE, vm |-> NULL, name |-> "", slot |-> 0, func |-> "NULL",
            calls |-> 0, vmargs |-> << >>, args |-> << >>,
            result |-> NoValue, pushed |-> << >> ]

NoReg == [ called |-> FALSE, func |-> "NULL", ok |-> FALSE ]

Init ==
  /\ all_virtual_machines = [ i \in VmSlots |-> NULL ]
  /\ vm = NULL
  /\ num_virtual_machines = 0
  /\ vm_stepped = [ i \in VmSlots |-> 0 ]
  /\ python_funcs = [ k \in 0 .. (HOOK_CAPACITY - 1) |-> "NULL" ]
  /\ python_initialized = 0
  /\ message_size = 0
  /\ BO_FNAME = NoName
  /\ BO_BUF = NULL
  /\ DBG_INFO = NoDbg
  /\ heap = << >>
  /\ oob = {}
  /\ crashed = FALSE
  /\ ret = NoCall
  /\ hist = << >>
  /\ hook = NoHook
  /\ reg = [ k \in 0 .. (HOOK_CAPACITY - 1) |-> NoReg ]
  /\ diag = << >>

\* the VM instance registered under vmid, NULL when there is none
VmOf(vmid) ==
  IF vmid \in VmSlots /\ vmid < num_virtual_machines
  THEN all_virtual_machines[vmid] ELSE NULL

\* vmid is the id of a VM whose load succeeded and that has not been destroyed
Loaded(vmid) ==
  /\ VmOf(vmid) # NULL
  /\ ~heap[VmOf(vmid)].freed
  /\ heap[VmOf(vmid)].state # "nocode"

LoadedIds == { i \in VmSlots : Loaded(i) }

(***************************************************************************)
(* buzz_error_info: the diagnostic for VM instance p, built from the       *)
(* process-wide DBG_INFO and BO_FNAME.                                      *)
(***************************************************************************)
buzz_error_info(p) ==
  [ vm |-> p, dbg |-> DBG_INFO, fname |-> BO_FNAME ]

(***************************************************************************)
(* buzz_script_set(bo_filename, bdbg_filename, comm_id).  res is what the  *)
(* files and the VM loader answer; layout and garbage decide what a store  *)
(* past the end of all_virtual_machines hits.                              *)
(***************************************************************************)
buzz_script_set_registry(p, layout, garbage) ==
  IF num_virtual_machines \in VmSlots
  THEN /\ all_virtual_machines' = [ all_virtual_machines EXCEPT ![num_virtual_machines] = p ]
       /\ num_virtual_machines' = num_virtual_machines + 1
       /\ oob' = oob
  ELSE /\ all_virtual_machines' = all_virtual_machines
       /\ oob' = oob \cup { num_virtual_machines }
       /\ num_virtual_machines' =
            IF layout = "num" /\ num_virtual_machines = MAX_NUM_VIRTUAL_MACHINES
            THEN garbage + 1
            ELSE num_virtual_machines + 1

buzz_script_set(res, layout, garbage) ==
  LET p == Len(heap) + 1 IN
  /\ ~crashed
  /\ buzz_script_set_registry(p, layout, garbage)
  /\ hist' = Append(hist, NewHist)
  /\ IF res = "fopen"
     THEN \* lines 243-247: the VM stays allocated and registered
          /\ vm' = p
          /\ heap' = Append(heap, buzzvm_new)
          /\ DBG_INFO' = [ owner |-> p, filled |-> FALSE ]
          /\ UNCHANGED << BO_BUF, BO_FNAME, python_initialized >>
          /\ ret' = [ NoCall EXCEPT !.op = "set", !.vmid = num_virtual_machines, !.val = 1 ]
     ELSE IF res \in { "fread", "debug", "bcode" }
     THEN \* lines 252-273: buzzvm_destroy(&vm), buzzdebug_destroy(&DBG_INFO)
          /\ vm' = NULL
          /\ heap' = Append(heap, [ buzzvm_new EXCEPT !.freed = TRUE ])
          /\ DBG_INFO' = NoDbg
          /\ BO_BUF' = p
          /\ UNCHANGED << BO_FNAME, python_initialized >>
          /\ ret' = [ NoCall EXCEPT !.op = "set", !.vmid = num_virtual_machines, !.val = 1 ]
     ELSE \* lines 274-303
          /\ vm' = p
          /\ heap' = Append(heap,
                [ buzzvm_new EXCEPT
                    !.state = "ready",
                    !.gsyms = [ n \in GlobalNames |->
                                  CASE n \in { "print", "log" } -> "buzz_print"
                                    [] n = "True"  -> "int 1"
                                    [] n = "False" -> "int 0"
                                    [] OTHER -> "nil" ] ])
          /\ DBG_INFO' = [ owner |-> p, filled |-> TRUE ]
          /\ BO_BUF' = p
          /\ BO_FNAME' = [ owner |-> p, freed |-> FALSE ]
          /\ python_initialized' = 1
          /\ ret' = [ NoCall EXCEPT !.op = "set", !.vmid = num_virtual_machines, !.val = 0 ]
  /\ diag' = << >>
  /\ hook' = NoHook
  /\ UNCHANGED << vm_stepped, python_funcs, message_size, crashed, reg >>

(***************************************************************************)
(* get_num_virtual_machines()                                              *)
(***************************************************************************)
get_num_virtual_machines ==
  /\ ~crashed
  /\ ret' = [ NoCall EXCEPT !.op = "num", !.val = num_virtual_machines ]
  /\ diag' = << >>
  /\ hook' = NoHook
  /\ UNCHANGED << all_virtual_machines, vm, num_virtual_machines, vm_stepped,
                  python_funcs, python_initialized, message_size, BO_FNAME,
                  BO_BUF, DBG_INFO, heap, oob, crashed, hist, reg >>

(***************************************************************************)
(* buzz_script_destroy().  The loop over the registry, from slot i on: h   *)
(* and hs are the instances and their histories so far, d the diagnostics  *)
(* emitted, cur the value of `vm`.  A slot holding a VM that was destroyed *)
(* already (by a failed buzz_script_set), or a slot past the end of the    *)
(* array, is a use of freed or foreign memory: ub says how that ends.      *)
(***************************************************************************)
RECURSIVE buzz_script_destroy_loop(_, _, _, _, _, _)
buzz_script_destroy_loop(i, h, hs, d, cur, ub) ==
  IF i >= num_virtual_machines
  THEN [ heap |-> h, hist |-> hs, diag |-> d, vm |-> cur, crashed |-> FALSE ]
  ELSE LET p == IF i \in VmSlots THEN all_virtual_machines[i] ELSE NULL IN
       IF p = NULL \/ h[p].freed
       THEN IF ub = "crash"
            THEN [ heap |-> h, hist |-> hs, diag |-> d, vm |-> p, crashed |-> TRUE ]
            ELSE buzz_script_destroy_loop(i + 1, h, hs, d, NULL, ub)
       ELSE IF h[p].state # "ready" /\ DBG_INFO = NoDbg /\ ub = "crash"
       THEN \* buzz_error_info reads through DBG_INFO
            [ heap |-> h, hist |-> hs, diag |-> d, vm |-> p, crashed |-> TRUE ]
       ELSE buzz_script_destroy_loop(
              i + 1,
              [ h EXCEPT ![p].freed = TRUE ],
              [ hs EXCEPT ![p].destroys = @ + 1 ],
              IF h[p].state # "ready" THEN Append(d, buzz_error_info(p)) ELSE d,
              NULL,
              ub)

buzz_script_destroy(ub) ==
  LET r == buzz_script_destroy_loop(0, heap, hist, << >>, vm, ub)
      \* free(BO_FNAME) of a name freed before; buzzdebug_destroy of no table
      bad == (BO_FNAME.owner # NULL /\ BO_FNAME.freed) \/ DBG_INFO = NoDbg
  IN
  /\ ~crashed
  /\ heap' = r.heap
  /\ hist' = r.hist
  /\ diag' = r.diag
  /\ vm' = r.vm
  /\ IF r.crashed \/ (bad /\ ub = "crash")
     THEN /\ crashed' = TRUE
          /\ UNCHANGED << BO_FNAME, DBG_INFO, num_virtual_machines, ret >>
     ELSE /\ crashed' = FALSE
          /\ BO_FNAME' = IF BO_FNAME.owner = NULL THEN BO_FNAME
                         ELSE [ BO_FNAME EXCEPT !.freed = TRUE ]
          /\ DBG_INFO' = NoDbg
          /\ num_virtual_machines' = 0
          /\ ret' = [ NoCall EXCEPT !.op = "destroy" ]
  /\ hook' = NoHook
  /\ UNCHANGED << all_virtual_machines, vm_stepped, python_funcs,
                  python_initialized, message_size, BO_BUF, oob, reg >>

(***************************************************************************)
(* buzz_script_done(vmid): reads the state of `vm`, the VM of the last     *)
(* call, whatever vmid is.  With vm NULL the read kills the process.       *)
(* A `vm` that was destroyed is not NULL only in buzz_script_destroy_loop's*)
(* crash case, after which nothing runs.                                   *)
(***************************************************************************)
buzz_script_done(vmid) ==
  /\ ~crashed
  /\ IF vm = NULL
     THEN /\ crashed' = TRUE
          /\ ret' = ret
     ELSE /\ crashed' = FALSE
          /\ ret' = [ NoCall EXCEPT !.op = "done", !.vmid = vmid,
                        !.val = IF heap[vm].state # "ready" THEN 1 ELSE 0 ]
  /\ diag' = << >>
  /\ hook' = NoHook
  /\ UNCHANGED << all_virtual_machines, vm, num_virtual_machines, vm_stepped,
                  python_funcs, python_initialized, message_size, BO_FNAME,
                  BO_BUF, DBG_INFO, heap, oob, hist, reg >>

(***************************************************************************)
(* Values.  A VM value and a host value are a type tag and a sequence of   *)
(* integers:                                                               *)
(*   VM int      <<r>>     an int32                                        *)
(*   VM float    <<m>>     a float                                         *)
(*   VM string   bytes     a C string: no 0 byte in it                     *)
(*   host int    <<q, r>>  the integer q * 2^32 + r, r an int32            *)
(*   host float  <<m, e>>  the double m + e, e what a float cannot hold    *)
(*   host bytes  bytes     any bytes                                       *)
(***************************************************************************)
RECURSIVE CStr(_)
\* the C string at the start of a byte buffer: the bytes before the first 0
CStr(bytes) ==
  IF bytes = << >> \/ Head(bytes) = 0 THEN << >>
  ELSE << Head(bytes) >> \o CStr(Tail(bytes))

\* python_callback, lines 128-141: one VM argument as a host object
ToHost(o) ==
  CASE o.type = "int"    -> [ type |-> "int",   value |-> << 0, o.value[1] >> ]
    [] o.type = "float"  -> [ type |-> "float", value |-> << o.value[1], 0 >> ]
    [] o.type = "string" -> [ type |-> "bytes", value |-> CStr(o.value) ]
    [] OTHER             -> [ type |-> "none",  value |-> << >> ]

\* python_callback, lines 144-154: the host's return value as the VM value pushed
FromHost(r) ==
  CASE r.type = "int"   -> [ type |-> "int",    value |-> << r.value[2] >> ]
    [] r.type = "float" -> [ type |-> "float",  value |-> << r.value[1] >> ]
    [] r.type = "bytes" -> [ type |-> "string", value |-> CStr(r.value) ]
    [] OTHER            -> [ type |-> "nil",    value |-> << >> ]

\* ArgTuple reading the symbols 0 .. size-2 instead of 1 .. size-1
ArgTuple_FromZero(lsyms) ==
  [ i \in 1 .. (Len(lsyms) - 1) |-> ToHost(lsyms[i]) ]

\* python_callback, lines 123-127: the argument tuple, from the local symbols
\* 1 .. size-1 of the frame (symbol 0 is the callee itself)
ArgTuple(lsyms) ==
  [ i \in 1 .. (Len(lsyms) - 1) |-> ToHost(lsyms[i + 1]) ]

(***************************************************************************)
(* The host module import_module has imported: f and g are functions, x is *)
(* an attribute that is no callable, any other name is not defined.        *)
(***************************************************************************)
PyObject_GetAttrString(name) ==
  IF name \in { "f", "g", "x" } THEN name ELSE "NULL"

\* PyCallable_Check answering 1 for every object
PyCallable_Check_Always(obj) == TRUE

PyCallable_Check(obj) == obj \in { "f", "g" }

\* every trampoline calling python_callback(vm, 0)
HookId_AlwaysZero(c) == 0

\* the slot of trampoline c: hooks[n] is the C function that calls python_callback(vm, n)
HookId(c) == CHOOSE k \in 0 .. (HOOK_CAPACITY - 1) : hooks[k + 1] = c

IsHook(c) == \E k \in 0 .. (HOOK_CAPACITY - 1) : hooks[k + 1] = c

(***************************************************************************)
(* python_callback(vm, hook_id), called by VM instance p for the global    *)
(* `name` with the frame lsyms; result is what the host callable returns.  *)
(* The record is the dispatch as the host and the script see it; pushed is *)
(* the values pushed for the script (none when the callable is no          *)
(* callable: PyObject_CallObject returns NULL and PyLong_Check reads it).  *)
(***************************************************************************)
python_callback(p, name, hook_id, lsyms, result) ==
  LET func == python_funcs[hook_id] IN
  [ called |-> TRUE, vm |-> p, name |-> name, slot |-> hook_id, func |-> func,
    calls  |-> 1,
    vmargs |-> SubSeq(lsyms, 2, Len(lsyms)),
    args   |-> ArgTuple(lsyms),
    result |-> result,
    pushed |-> IF PyCallable_Check(func) THEN << FromHost(result) >> ELSE << >> ]

(***************************************************************************)
(* register_hook(vmid, hook_number, function_name)                         *)
(***************************************************************************)
register_hook(vmid, hook_number, function_name) ==
  LET p    == all_virtual_machines[vmid]
      func == PyObject_GetAttrString(function_name)
  IN
  /\ ~crashed
  /\ Loaded(vmid)
  /\ vm' = p
  /\ python_funcs' = [ python_funcs EXCEPT ![hook_number] = func ]
  /\ reg' = [ reg EXCEPT ![hook_number] =
                [ called |-> TRUE, func |-> func, ok |-> PyCallable_Check(func) ] ]
  /\ IF ~PyCallable_Check(func)
     THEN /\ heap' = heap
          /\ ret' = [ NoCall EXCEPT !.op = "hook", !.vmid = vmid, !.val = 1 ]
     ELSE /\ heap' = [ heap EXCEPT ![p].gsyms[function_name] = hooks[hook_number + 1] ]
          /\ ret' = [ NoCall EXCEPT !.op = "hook", !.vmid = vmid, !.val = 0 ]
  /\ diag' = << >>
  /\ hook' = NoHook
  /\ UNCHANGED << all_virtual_machines, num_virtual_machines, vm_stepped,
                  python_initialized, message_size, BO_FNAME, BO_BUF, DBG_INFO,
                  oob, crashed, hist >>

(***************************************************************************)
(* Neighbors and inbound messages.                                         *)
(***************************************************************************)
\* Uint16 saturating at the ends of the range instead of wrapping
Uint16_Saturate(x) == IF x < 0 THEN 0 ELSE IF x > 65535 THEN 65535 ELSE x

\* Uint16 without the cast: the id as the caller gave it
Uint16_NoCast(x) == x

\* the cast (uint16_t)x of an int
Uint16(x) == x % 65536

\* buzzneighbors_add: the table maps a robot id to its coordinates
buzzneighbors_add(table, robot, pos) ==
  [ k \in DOMAIN table \cup { robot } |-> IF k = robot THEN pos ELSE table[k] ]

\* buzzmsg_payload_frombuffer: a copy of the first size bytes of the buffer
buzzmsg_payload_frombuffer(buffer, size) == SubSeq(buffer, 1, size)

\* every other call resets what the last call reported
Quiet == diag' = << >> /\ hook' = NoHook

\* reset_neighbors without the call of buzzneighbors_reset
reset_neighbors_NoReset(vmid) ==
  LET p == all_virtual_machines[vmid] IN
  /\ ~crashed
  /\ Loaded(vmid)
  /\ vm' = p
  /\ heap' = heap
  /\ hist' = [ hist EXCEPT ![p].adds = << >>, ![p].reset = TRUE,
                           ![p].cleared = Cardinality(DOMAIN heap[p].neighbors) ]
  /\ ret' = [ NoCall EXCEPT !.op = "reset", !.vmid = vmid ]
  /\ Quiet
  /\ UNCHANGED << all_virtual_machines, num_virtual_machines, vm_stepped,
                  python_funcs, python_initialized, message_size, BO_FNAME,
                  BO_BUF, DBG_INFO, oob, crashed, reg >>

reset_neighbors(vmid) ==
  LET p == all_virtual_machines[vmid] IN
  /\ ~crashed
  /\ Loaded(vmid)
  /\ vm' = p
  /\ heap' = [ heap EXCEPT ![p].neighbors = EmptyTable ]
  /\ hist' = [ hist EXCEPT ![p].adds = << >>, ![p].reset = TRUE,
                           ![p].cleared = Cardinality(DOMAIN heap[p].neighbors) ]
  /\ ret' = [ NoCall EXCEPT !.op = "reset", !.vmid = vmid ]
  /\ Quiet
  /\ UNCHANGED << all_virtual_machines, num_virtual_machines, vm_stepped,
                  python_funcs, python_initialized, message_size, BO_FNAME,
                  BO_BUF, DBG_INFO, oob, crashed, reg >>

add_neighbor(vmid, neighbour_id, pos) ==
  LET p == all_virtual_machines[vmid] IN
  /\ ~crashed
  /\ Loaded(vmid)
  /\ vm' = p
  /\ heap' = [ heap EXCEPT ![p].neighbors =
                 buzzneighbors_add(@, Uint16(neighbour_id), pos) ]
  /\ hist' = [ hist EXCEPT ![p].adds = Append(@, [ id |-> neighbour_id, pos |-> pos ]) ]
  /\ ret' = [ NoCall EXCEPT !.op = "add", !.vmid = vmid ]
  /\ Quiet
  /\ UNCHANGED << all_virtual_machines, num_virtual_machines, vm_stepped,
                  python_funcs, python_initialized, message_size, BO_FNAME,
                  BO_BUF, DBG_INFO, oob, crashed, reg >>

feed_buzz_message(vmid, sender_id, message, size) ==
  LET p == all_virtual_machines[vmid] IN
  /\ ~crashed
  /\ Loaded(vmid)
  /\ vm' = p
  /\ heap' = [ heap EXCEPT ![p].inmsgs =
                 Append(@, [ sender  |-> Uint16(sender_id),
                             payload |-> buzzmsg_payload_frombuffer(message, size) ]) ]
  /\ hist' = [ hist EXCEPT ![p].fed =
                 Append(@, [ sender |-> sender_id, message |-> message, size |-> size ]) ]
  /\ ret' = [ NoCall EXCEPT !.op = "feed", !.vmid = vmid ]
  /\ Quiet
  /\ UNCHANGED << all_virtual_machines, num_virtual_machines, vm_stepped,
                  python_funcs, python_initialized, message_size, BO_FNAME,
                  BO_BUF, DBG_INFO, oob, crashed, reg >>

\* set_abs_pos(vmid, x, y, z): the global absolute_position of the VM becomes
\* a new table with the fields x, y and z
set_abs_pos(vmid, pos) ==
  LET p == all_virtual_machines[vmid] IN
  /\ ~crashed
  /\ Loaded(vmid)
  /\ vm' = p
  /\ heap' = [ heap EXCEPT ![p].position = pos ]
  /\ ret' = [ NoCall EXCEPT !.op = "pos", !.vmid = vmid ]
  /\ Quiet
  /\ UNCHANGED << all_virtual_machines, num_virtual_machines, vm_stepped,
                  python_funcs, python_initialized, message_size, BO_FNAME,
                  BO_BUF, DBG_INFO, oob, crashed, hist, reg >>

(***************************************************************************)
(* Outbound messages.                                                      *)
(***************************************************************************)
are_more_messages(vmid) ==
  LET p == all_virtual_machines[vmid] IN
  /\ ~crashed
  /\ Loaded(vmid)
  /\ vm' = p
  /\ ret' = [ NoCall EXCEPT !.op = "more", !.vmid = vmid,
                !.val = IF heap[p].outmsgs # << >> THEN 1 ELSE 0 ]
  /\ Quiet
  /\ UNCHANGED << all_virtual_machines, num_virtual_machines, vm_stepped,
                  python_funcs, python_initialized, message_size, BO_FNAME,
                  BO_BUF, DBG_INFO, heap, oob, crashed, hist, reg >>

\* buzzoutmsg_queue_first: the message at the head of the queue
buzzoutmsg_queue_first(queue) == Head(queue)

\* buzzoutmsg_queue_next: the queue without its head
buzzoutmsg_queue_next(queue) == Tail(queue)

\* get_next_message without the call of buzzoutmsg_queue_next
get_next_message_NoAdvance(vmid) ==
  LET p == all_virtual_machines[vmid] IN
  /\ ~crashed
  /\ Loaded(vmid)
  /\ vm' = p
  /\ IF heap[p].outmsgs = << >>
     THEN /\ crashed' = TRUE
          /\ UNCHANGED << message_size, heap, hist, ret >>
     ELSE LET m == buzzoutmsg_queue_first(heap[p].outmsgs) IN
          /\ crashed' = FALSE
          /\ message_size' = Len(m)
          /\ heap' = heap
          /\ hist' = [ hist EXCEPT ![p].got = Append(@, m) ]
          /\ ret' = [ NoCall EXCEPT !.op = "next", !.vmid = vmid, !.data = m ]
  /\ Quiet
  /\ UNCHANGED << all_virtual_machines, num_virtual_machines, vm_stepped,
                  python_funcs, python_initialized, BO_FNAME, BO_BUF, DBG_INFO,
                  oob, reg >>

\* With an empty queue there is no first message and buzzmsg_payload_size
\* reads through a null pointer.
get_next_message(vmid) ==
  LET p == all_virtual_machines[vmid] IN
  /\ ~crashed
  /\ Loaded(vmid)
  /\ vm' = p
  /\ IF heap[p].outmsgs = << >>
     THEN /\ crashed' = TRUE
          /\ UNCHANGED << message_size, heap, hist, ret >>
     ELSE LET m == buzzoutmsg_queue_first(heap[p].outmsgs) IN
          /\ crashed' = FALSE
          /\ message_size' = Len(m)
          /\ heap' = [ heap EXCEPT ![p].outmsgs = buzzoutmsg_queue_next(@) ]
          /\ hist' = [ hist EXCEPT ![p].got = Append(@, m) ]
          /\ ret' = [ NoCall EXCEPT !.op = "next", !.vmid = vmid, !.data = m ]
  /\ Quiet
  /\ UNCHANGED << all_virtual_machines, num_virtual_machines, vm_stepped,
                  python_funcs, python_initialized, BO_FNAME, BO_BUF, DBG_INFO,
                  oob, reg >>

\* get_message_size returning the size the process started with
get_message_size_Stale ==
  /\ ~crashed
  /\ ret' = [ NoCall EXCEPT !.op = "size", !.val = 0 ]
  /\ Quiet
  /\ UNCHANGED << all_virtual_machines, vm, num_virtual_machines, vm_stepped,
                  python_funcs, python_initialized, message_size, BO_FNAME,
                  BO_BUF, DBG_INFO, heap, oob, crashed, hist, reg >>

get_message_size ==
  /\ ~crashed
  /\ ret' = [ NoCall EXCEPT !.op = "size", !.val = message_size ]
  /\ Quiet
  /\ UNCHANGED << all_virtual_machines, vm, num_virtual_machines, vm_stepped,
                  python_funcs, python_initialized, message_size, BO_FNAME,
                  BO_BUF, DBG_INFO, heap, oob, crashed, hist, reg >>

(***************************************************************************)
(* buzz_script_step(vmid).  s is what the script of the VM does in this    *)
(* call:                                                                   *)
(*   s.fault   where it traps: "none", "top" (top-level body), "init",     *)
(*             "step"                                                      *)
(*   s.name    the global it calls from its step function ("" for none),   *)
(*             s.args the arguments, s.result what the host returns        *)
(*   s.echo    its step function enqueues every message of this call back  *)
(*   s.emit    payloads its step function enqueues after that              *)
(*   s.ub      how a read through a destroyed DBG_INFO ends                *)
(* A VM that is not ready runs no script code: buzzvm_execute_script and   *)
(* buzzvm_function_call return its state.                                  *)
(***************************************************************************)
\* lines 383-389: the init sequence runs iff the flag of vmid is not set
RunsInit(vmid) == vm_stepped[vmid] = 0

\* lines 385-387: the state after the init sequence
AfterInit(state, fault) ==
  IF state = "ready" /\ fault \in { "top", "init" } THEN "error" ELSE state

\* StepCalls with the step entry point called before the queue is drained
StepCalls_StepFirst(first) ==
  (IF first THEN << "buzzvm_execute_script", "init" >> ELSE << >>)
    \o << "step", "buzzvm_process_inmsgs" >>

\* lines 383-397: what buzz_script_step calls in the VM, in order; first is
\* the outcome of the test of line 383
StepCalls(first) ==
  (IF first THEN << "buzzvm_execute_script", "init" >> ELSE << >>)
    \o << "buzzvm_process_inmsgs", "step" >>

\* line 392, buzzvm_process_inmsgs: every queued message, in queue order
buzzvm_process_inmsgs(queue) == queue

Payloads(msgs) == [ i \in 1 .. Len(msgs) |-> msgs[i].payload ]

Callee == [ type |-> "closure", value |-> << >> ]

buzz_script_step(vmid, s) ==
  LET p      == all_virtual_machines[vmid]
      first  == RunsInit(vmid)
      st1    == IF first THEN AfterInit(heap[p].state, s.fault) ELSE heap[p].state
      dlv    == buzzvm_process_inmsgs(heap[p].inmsgs)
      runs   == st1 = "ready"
      c      == IF s.name = "" THEN "nil" ELSE heap[p].gsyms[s.name]
      calls  == runs /\ IsHook(c)
      disp   == IF calls
                THEN python_callback(p, s.name, HookId(c), << Callee >> \o s.args, s.result)
                ELSE NoHook
      dead   == calls /\ disp.pushed = << >>
      out    == IF runs /\ ~dead
                THEN (IF s.echo THEN Payloads(dlv) ELSE << >>) \o s.emit
                ELSE << >>
      st2    == IF runs /\ ~dead /\ s.fault = "step" THEN "error" ELSE st1
      report == ~dead /\ st2 # "ready"
      \* lines 397-402: buzz_error_info reads through DBG_INFO
      nodbg  == report /\ DBG_INFO = NoDbg /\ s.ub = "crash"
  IN
  /\ ~crashed
  /\ Loaded(vmid)
  /\ vm' = p
  /\ vm_stepped' = [ vm_stepped EXCEPT ![vmid] = 1 ]
  /\ heap' = [ heap EXCEPT ![p].state   = st2,
                           ![p].inmsgs  = << >>,
                           ![p].outmsgs = @ \o out ]
  /\ hist' = [ hist EXCEPT ![p].steps  = @ + 1,
                           ![p].inits  = IF first THEN @ + 1 ELSE @,
                           ![p].initAt = IF first THEN hist[p].steps + 1 ELSE @,
                           ![p].dlv    = @ \o dlv,
                           ![p].sent   = @ \o out,
                           ![p].calls  = StepCalls(first) ]
  /\ hook' = disp
  /\ diag' = IF report /\ ~nodbg THEN << buzz_error_info(p) >> ELSE << >>
  /\ crashed' = (dead \/ nodbg)
  /\ ret' = [ NoCall EXCEPT !.op = "step", !.vmid = vmid ]
  /\ UNCHANGED << all_virtual_machines, num_virtual_machines, python_funcs,
                  python_initialized, message_size, BO_FNAME, BO_BUF, DBG_INFO,
                  oob, reg >>

(***************************************************************************)
(* The registry specification: loads only, up to and past the capacity of  *)
(* the registry, a bounded number of them failing.                         *)
(***************************************************************************)
\* the instances whose load failed keep the state buzzvm_new gave them
FailedLoads == { i \in 1 .. Len(heap) : heap[i].state = "nocode" }

LoadOk ==
  /\ Len(heap) < MaxAllocReg
  /\ \E layout \in Layouts, garbage \in GarbageInts :
       buzz_script_set("ok", layout, garbage)

LoadFails ==
  /\ Len(heap) < MaxAllocReg
  /\ Cardinality(FailedLoads) < MaxFailedReg
  /\ \E res \in LoadResults \ { "ok" }, layout \in Layouts, garbage \in GarbageInts :
       buzz_script_set(res, layout, garbage)

NumVms == get_num_virtual_machines

NextRegistry == LoadOk \/ LoadFails \/ NumVms

SpecRegistry == Init /\ [][NextRegistry]_vars

(***************************************************************************)
(* C1: the number of registered VMs never exceeds MAX_NUM_VIRTUAL_MACHINES *)
(* and no registry slot with index >= MAX_NUM_VIRTUAL_MACHINES is ever     *)
(* written.                                                                *)
(***************************************************************************)
C1_WithinCapacity ==
  /\ num_virtual_machines <= MAX_NUM_VIRTUAL_MACHINES
  /\ oob = {}

(***************************************************************************)
(* C4: a buzz_script_set that fails returns non-zero and leaves the        *)
(* registry as it was: the count is unchanged, no id refers to the VM      *)
(* instance of the failed attempt, and every VM loaded before keeps its    *)
(* instance and its state.                                                 *)
(***************************************************************************)
C4_FailedLoadLeavesRegistry ==
  [][ \A res \in LoadResults \ { "ok" }, layout \in Layouts, garbage \in GarbageInts :
        buzz_script_set(res, layout, garbage) =>
          /\ ret'.val # 0
          /\ num_virtual_machines' = num_virtual_machines
          /\ all_virtual_machines' = all_virtual_machines
          /\ \A i \in VmSlots : all_virtual_machines'[i] # Len(heap) + 1
          /\ \A p \in 1 .. Len(heap) : heap'[p] = heap[p]
    ]_vars

(***************************************************************************)
(* The execution specification: loads that succeed or fail, steps of       *)
(* scripts that trap or not, buzz_script_done and buzz_script_destroy.     *)
(***************************************************************************)
\* scripts that send nothing and call no hook
ExecScripts ==
  { [ fault |-> f, name |-> "", args |-> << >>, result |-> NoValue,
      echo |-> FALSE, emit |-> << >>, ub |-> u ] : f \in Faults, u \in UbResults }

Load ==
  /\ Len(heap) < MaxAlloc
  /\ num_virtual_machines < MAX_NUM_VIRTUAL_MACHINES
  /\ \E res \in LoadResults, layout \in Layouts, garbage \in GarbageInts :
       buzz_script_set(res, layout, garbage)

StepExec ==
  \E vmid \in LoadedIds :
    /\ hist[all_virtual_machines[vmid]].steps < MaxSteps
    /\ \E s \in ExecScripts : buzz_script_step(vmid, s)

Done == \E vmid \in LoadedIds : buzz_script_done(vmid)

Destroy == \E ub \in UbResults : buzz_script_destroy(ub)

NextExec == Load \/ StepExec \/ Done \/ Destroy

SpecExec == Init /\ [][NextExec]_vars

(***************************************************************************)
(* C2: for every loaded VM, after N >= 1 calls of buzz_script_step on it,  *)
(* the init sequence has been executed exactly once for that VM, and it    *)
(* was executed during the first of those calls.                           *)
(***************************************************************************)
C2_InitExactlyOnce ==
  \A vmid \in LoadedIds :
    LET p == all_virtual_machines[vmid] IN
    hist[p].steps >= 1 => hist[p].inits = 1 /\ hist[p].initAt = 1

(***************************************************************************)
(* C3: buzz_script_done(vmid) returns true if and only if the state of the *)
(* VM registered under vmid is not ready.                                  *)
(***************************************************************************)
C3_DoneIsPerVm ==
  ret.op = "done" =>
    (ret.val # 0 <=> heap[all_virtual_machines[ret.vmid]].state # "ready")

(***************************************************************************)
(* C5: for two distinct loaded VMs A and B, a buzz_script_step(A) in which *)
(* A's script faults leaves B's state, stepped-flag, neighbor table and    *)
(* queues unchanged, and leaves the process able to step B afterwards.     *)
(***************************************************************************)
C5_FaultIsolation ==
  [][ \A a \in VmSlots, s \in ExecScripts :
        ( /\ buzz_script_step(a, s)
          /\ heap[all_virtual_machines[a]].state = "ready"
          /\ heap'[all_virtual_machines[a]].state # "ready" )
        => \A b \in LoadedIds \ { a } :
             /\ all_virtual_machines'[b] = all_virtual_machines[b]
             /\ heap'[all_virtual_machines[b]] = heap[all_virtual_machines[b]]
             /\ vm_stepped'[b] = vm_stepped[b]
             /\ ~crashed'
    ]_vars

(***************************************************************************)
(* The message specification: VMs that load, messages fed to them, steps   *)
(* of scripts that echo what they receive or send a payload of their own,  *)
(* and the host's loop over the outbound queue.                            *)
(***************************************************************************)
\* the arguments of the feed_buzz_message calls of a run, in call order
\* (sender id, buffer, size); the host chooses the VM of each call
MsgInputs ==
  << [ sender |-> 1,     message |-> << 7 >>,       size |-> 1 ],
     [ sender |-> 2,     message |-> << 8, 0, 9 >>, size |-> 3 ],
     [ sender |-> 65539, message |-> << 9, 9 >>,    size |-> 1 ] >>

\* a script that echoes what it receives and one that sends a payload of its
\* own and then traps
MsgScripts ==
  { [ fault |-> c[1], name |-> "", args |-> << >>, result |-> NoValue,
      echo |-> c[2], emit |-> c[3], ub |-> "crash" ] :
      c \in { << "none", TRUE, << >> >>,
              << "step", FALSE, << << 5, 0 >> >> >> } }

Instances == 1 .. Len(heap)

RECURSIVE SumFed(_)
SumFed(n) == IF n = 0 THEN 0 ELSE Len(hist[n].fed) + SumFed(n - 1)

RECURSIVE SumSteps(_)
SumSteps(n) == IF n = 0 THEN 0 ELSE hist[n].steps + SumSteps(n - 1)

LoadVm ==
  /\ Len(heap) < MaxVms
  /\ \E layout \in Layouts, garbage \in GarbageInts :
       buzz_script_set("ok", layout, garbage)

Feed ==
  /\ SumFed(Len(hist)) < MaxFeed
  /\ LET m == MsgInputs[(SumFed(Len(hist)) % Len(MsgInputs)) + 1] IN
     \E vmid \in LoadedIds :
       feed_buzz_message(vmid, m.sender, m.message, m.size)

StepMsg ==
  /\ SumSteps(Len(hist)) < MaxStepsMsg
  /\ \E vmid \in LoadedIds, s \in MsgScripts : buzz_script_step(vmid, s)

\* the host asks are_more_messages(vmid) as the condition of its loop over the
\* outbound queue of vmid: after the step of vmid and after each message taken
MoreMessages ==
  \E vmid \in LoadedIds :
    /\ ret.op \in { "step", "next" } /\ ret.vmid = vmid
    /\ are_more_messages(vmid)

\* the host calls get_next_message inside "while are_more_messages(vmid)"
NextMessage ==
  \E vmid \in LoadedIds :
    /\ heap[all_virtual_machines[vmid]].outmsgs # << >>
    /\ get_next_message(vmid)

NextMsg == LoadVm \/ Feed \/ StepMsg \/ MoreMessages \/ NextMessage

SpecMsg == Init /\ [][NextMsg]_vars

\* the messages fed to instance p, with the sender ids as the caller gave them
FedAsCalled(p) ==
  [ i \in 1 .. Len(hist[p].fed) |->
      [ sender  |-> hist[p].fed[i].sender,
        payload |-> SubSeq(hist[p].fed[i].message, 1, hist[p].fed[i].size) ] ]

\* the same, with the sender ids reduced modulo 2^16
FedMod16(p) ==
  [ i \in 1 .. Len(hist[p].fed) |->
      [ sender  |-> hist[p].fed[i].sender % 65536,
        payload |-> SubSeq(hist[p].fed[i].message, 1, hist[p].fed[i].size) ] ]

(***************************************************************************)
(* C6 as stated: every message fed to a VM is delivered to that VM's       *)
(* message processing by the next step exactly once, in the order fed,     *)
(* with its sender id and payload unchanged, and to no other VM; the       *)
(* inbound queue is empty when a step has returned.                        *)
(***************************************************************************)
C6_DeliveredUnchanged ==
  /\ \A p \in Instances : hist[p].dlv \o heap[p].inmsgs = FedAsCalled(p)
  /\ (ret.op = "step" /\ ~crashed) => heap[all_virtual_machines[ret.vmid]].inmsgs = << >>

(***************************************************************************)
(* C6 as amended: the same, the sender id being delivered modulo 2^16      *)
(* (unchanged when it is in 0 .. 65535).                                   *)
(***************************************************************************)
C6_DeliveredMod16 ==
  /\ \A p \in Instances : hist[p].dlv \o heap[p].inmsgs = FedMod16(p)
  /\ (ret.op = "step" /\ ~crashed) => heap[all_virtual_machines[ret.vmid]].inmsgs = << >>

\* two VMs, one fed messages that a step has delivered, the other fed a
\* message that is still queued
C6_Witness ==
  \E p, q \in Instances :
    /\ p # q
    /\ Len(hist[p].dlv) = 2 /\ heap[p].inmsgs = << >>
    /\ hist[q].dlv = << >> /\ Len(heap[q].inmsgs) = 1
    /\ hist[q].steps = 0
    /\ ret.op = "step"

(***************************************************************************)
(* C7: the payloads get_next_message has returned for a VM, followed by    *)
(* the payloads still in its outbound queue, are the payloads its script   *)
(* has enqueued, in the order enqueued: the host's loop returns each of    *)
(* them once, first in first out.  are_more_messages is true exactly when  *)
(* a payload is left, and get_next_message returns the oldest payload and  *)
(* sets the size reported by get_message_size to its length.               *)
(***************************************************************************)
C7_OutboundFifo ==
  /\ \A p \in Instances : hist[p].got \o heap[p].outmsgs = hist[p].sent
  /\ ret.op = "more" =>
       (ret.val # 0 <=> heap[all_virtual_machines[ret.vmid]].outmsgs # << >>)
  /\ ret.op = "next" =>
       LET p == all_virtual_machines[ret.vmid] IN
       /\ ret.data = hist[p].sent[Len(hist[p].got)]
       /\ message_size = Len(ret.data)

\* a VM was fed three messages, one step of an echoing script has enqueued
\* them, and the host's loop has taken exactly those three payloads, in feed
\* order, and has seen are_more_messages turn false
C7_Witness ==
  \E vmid \in LoadedIds :
    LET p == all_virtual_machines[vmid] IN
    /\ Len(hist[p].fed) = 3
    /\ hist[p].steps = 1
    /\ hist[p].got = << << 7 >>, << 8, 0, 9 >>, << 9 >> >>
    /\ ret = [ NoCall EXCEPT !.op = "more", !.vmid = vmid ]

(***************************************************************************)
(* The neighbor specification: VMs that load, reset_neighbors and          *)
(* add_neighbor calls on them.                                             *)
(***************************************************************************)
\* neighbor ids the host passes: 65537 is 1 modulo 2^16, -1 is 65535
NbrIds == { 1, 65537, -1 }

\* coordinates (x, y, z) the host passes
NbrPos == { << 0, 0, 0 >>, << 1, 2, 3 >> }

RECURSIVE SumAdds(_)
SumAdds(n) == IF n = 0 THEN 0 ELSE Len(hist[n].adds) + SumAdds(n - 1)

ResetNeighbors == \E vmid \in LoadedIds : reset_neighbors(vmid)

AddNeighbor ==
  /\ SumAdds(Len(hist)) < MaxAdds
  /\ \E vmid \in LoadedIds, id \in NbrIds, pos \in NbrPos : add_neighbor(vmid, id, pos)

NextNbr == LoadVm \/ ResetNeighbors \/ AddNeighbor

SpecNbr == Init /\ [][NextNbr]_vars

\* the add_neighbor calls on instance p since its last reset_neighbors
Adds(p) == hist[p].adds

\* the last of those calls whose id is k modulo 2^16
LastAdd(p, k) ==
  CHOOSE i \in 1 .. Len(Adds(p)) :
    /\ Adds(p)[i].id % 65536 = k
    /\ \A j \in (i + 1) .. Len(Adds(p)) : Adds(p)[j].id % 65536 # k

(***************************************************************************)
(* C8 as stated: after reset_neighbors(vmid) and N add_neighbor calls the  *)
(* neighbor table of the VM has exactly N entries, the given ids mapped to *)
(* the given coordinates.                                                  *)
(***************************************************************************)
C8_ExactlyTheGivenIds ==
  \A p \in Instances :
    hist[p].reset =>
      /\ Cardinality(DOMAIN heap[p].neighbors) = Len(Adds(p))
      /\ \A i \in 1 .. Len(Adds(p)) :
           /\ Adds(p)[i].id \in DOMAIN heap[p].neighbors
           /\ heap[p].neighbors[Adds(p)[i].id] = Adds(p)[i].pos

(***************************************************************************)
(* C8 as amended: after reset_neighbors(vmid) and N add_neighbor calls the *)
(* neighbor table of the VM holds the ids of those calls modulo 2^16 and   *)
(* nothing else, each mapped to the coordinates of the last call that gave *)
(* it; it has exactly N entries when the N ids are pairwise distinct       *)
(* modulo 2^16.  What the table held before the reset does not matter.     *)
(***************************************************************************)
C8_TheGivenIdsMod16 ==
  \A p \in Instances :
    hist[p].reset =>
      /\ DOMAIN heap[p].neighbors = { Adds(p)[i].id % 65536 : i \in 1 .. Len(Adds(p)) }
      /\ \A k \in DOMAIN heap[p].neighbors :
           heap[p].neighbors[k] = Adds(p)[LastAdd(p, k)].pos
      /\ (\A i, j \in 1 .. Len(Adds(p)) :
            i # j => Adds(p)[i].id % 65536 # Adds(p)[j].id % 65536)
         => Cardinality(DOMAIN heap[p].neighbors) = Len(Adds(p))

\* a table that held an entry was reset and two neighbors with distinct ids
\* were added, one of them with an id out of the 16-bit range
C8_Witness ==
  \E p \in Instances :
    /\ hist[p].reset
    /\ hist[p].cleared >= 1
    /\ Len(Adds(p)) = 2
    /\ Cardinality(DOMAIN heap[p].neighbors) = 2
    /\ \E i \in 1 .. 2 : Adds(p)[i].id = -1

(***************************************************************************)
(* The hook specification: VMs that load, register_hook calls on them      *)
(* (names that resolve and names that do not), and steps of scripts that   *)
(* call a hook.                                                            *)
(***************************************************************************)
\* the slots the host registers hooks on
SlotInputs == { 0, 1 }

\* the names the host registers: f and g resolve, nope is undefined
NameInputs == { "f", "g", "nope" }

\* argument lists a script calls a hook with
NoArgs == << >>

TwoArgs ==
  << [ type |-> "string", value |-> << 97, 98 >> ], [ type |-> "int", value |-> << -4 >> ] >>

FourArgs ==
  << [ type |-> "int", value |-> << 5 >> ],   [ type |-> "float", value |-> << 2 >> ],
     [ type |-> "table", value |-> << >> ],   [ type |-> "string", value |-> << 104 >> ] >>

\* the calls a script makes: the arguments, and what the host callable
\* returns: the int 2^32 + 5, a double that is no float, bytes with a 0 in
\* them, None, a str
CallInputs ==
  { << NoArgs,   [ type |-> "int",   value |-> << 1, 5 >> ] >>,
    << TwoArgs,  [ type |-> "float", value |-> << 3, 1 >> ] >>,
    << FourArgs, [ type |-> "bytes", value |-> << 104, 0, 105 >> ] >>,
    << TwoArgs,  [ type |-> "none",  value |-> << >> ] >>,
    << NoArgs,   [ type |-> "str",   value |-> << 111, 107 >> ] >> }

\* scripts that call their global f
HookScripts ==
  { [ fault |-> "none", name |-> "f", args |-> c[1], result |-> c[2],
      echo |-> FALSE, emit |-> << >>, ub |-> "crash" ] : c \in CallInputs }

\* the host registers its hooks during setup, before it steps a VM
RegisterHook ==
  /\ SumSteps(Len(hist)) = 0
  /\ \E vmid \in LoadedIds, slot \in SlotInputs, name \in NameInputs :
       register_hook(vmid, slot, name)

StepHook ==
  /\ SumSteps(Len(hist)) < MaxStepsHook
  /\ \E vmid \in LoadedIds, s \in HookScripts : buzz_script_step(vmid, s)

NextHook == LoadVm \/ RegisterHook \/ StepHook

SpecHook == Init /\ [][NextHook]_vars

(***************************************************************************)
(* C9: when a script calls the name registered on hook slot k with M       *)
(* arguments and a host callable is bound to slot k, the trampoline calls  *)
(* that callable once, with M arguments in the order given (VM int -> host *)
(* int, float -> host float, string -> host bytes, any other type -> host  *)
(* None), and pushes one value: host int -> VM int, host float -> VM       *)
(* float, host bytes -> VM string, anything else -> VM nil.                *)
(***************************************************************************)
C9_TrampolineMarshals ==
  (hook.called /\ PyCallable_Check(hook.func)) =>
    /\ hooks[hook.slot + 1] = heap[hook.vm].gsyms[hook.name]
    /\ hook.func = python_funcs[hook.slot]
    /\ hook.calls = 1
    /\ Len(hook.args) = Len(hook.vmargs)
    /\ \A i \in 1 .. Len(hook.vmargs) :
         LET o == hook.vmargs[i]
             a == hook.args[i]
         IN CASE o.type = "int"    -> a.type = "int"   /\ a.value = << 0, o.value[1] >>
              [] o.type = "float"  -> a.type = "float" /\ a.value = << o.value[1], 0 >>
              [] o.type = "string" -> a.type = "bytes" /\ a.value = o.value
              [] OTHER             -> a.type = "none"
    /\ Len(hook.pushed) = 1
    /\ LET r == hook.result
           v == hook.pushed[1]
       IN CASE r.type = "int"   -> v.type = "int"
            [] r.type = "float" -> v.type = "float"
            [] r.type = "bytes" -> v.type = "string"
            [] OTHER            -> v.type = "nil"

\* a hook was called with four arguments of four types, the host returned
\* bytes and the script got a string
C9_Witness ==
  /\ hook.called
  /\ Len(hook.args) = 4
  /\ hook.result.type = "bytes"
  /\ Len(hook.pushed) = 1
  /\ hook.slot = 1
  /\ ~crashed

(***************************************************************************)
(* C10: hook slots are process-wide.  What slot k is bound to is what the  *)
(* last register_hook call on slot k resolved, whatever VM and name that   *)
(* call was made for and whatever was registered on other slots; a script  *)
(* of any VM that calls a name registered on slot k reaches the callable   *)
(* of the last registration on slot k, when that registration succeeded.   *)
(***************************************************************************)
C10_SlotsAreProcessWide ==
  /\ \A k \in 0 .. (HOOK_CAPACITY - 1) :
       python_funcs[k] = IF reg[k].called THEN reg[k].func ELSE "NULL"
  /\ (hook.called /\ reg[hook.slot].ok) =>
       /\ hooks[hook.slot + 1] = heap[hook.vm].gsyms[hook.name]
       /\ hook.func = reg[hook.slot].func
       /\ Len(hook.pushed) = 1

\* a script of a VM calls the name f, which it registered on a slot, and
\* reaches the callable g: g was registered on that slot later, for another
\* VM (this VM has no global g), and the other slot was registered too
C10_Witness ==
  /\ hook.called
  /\ reg[hook.slot].ok
  /\ hook.name = "f"
  /\ hook.func = "g"
  /\ heap[hook.vm].gsyms["g"] = "nil"
  /\ reg[1 - hook.slot].called
  /\ ~crashed

(***************************************************************************)
(* The registration specification: VMs that load and register_hook calls   *)
(* on them, with a name that is a function of the host module, a name that *)
(* is an attribute but no callable, and a name that is not defined.        *)
(***************************************************************************)
\* the slots the host registers on: the first and the last
RegSlots == { 0, HOOK_CAPACITY - 1 }

\* f is a function, x is no callable, nope is undefined
RegNames == { "f", "x", "nope" }

RegisterAny ==
  \E vmid \in LoadedIds, slot \in RegSlots, name \in RegNames :
    register_hook(vmid, slot, name)

NextRegister == LoadVm \/ RegisterAny

SpecRegister == Init /\ [][NextRegister]_vars

(***************************************************************************)
(* C11: register_hook(vmid, slot, name) with a name that is no callable of *)
(* the host module returns non-zero and leaves the globals of the VM as    *)
(* they were; with the name of a callable it returns 0 and binds the name, *)
(* in the globals of that VM, to the trampoline of exactly that slot.      *)
(***************************************************************************)
C11_RegisterHookResult ==
  [][ \A vmid \in VmSlots, slot \in RegSlots, name \in RegNames :
        register_hook(vmid, slot, name) =>
          LET p == all_virtual_machines[vmid] IN
          /\ ret'.op = "hook"
          /\ IF name \in { "f", "g" }
             THEN /\ ret'.val = 0
                  /\ heap'[p].gsyms[name] = hooks[slot + 1]
                  /\ \A n \in GlobalNames \ { name } :
                       heap'[p].gsyms[n] = heap[p].gsyms[n]
             ELSE /\ ret'.val # 0
                  /\ heap'[p].gsyms = heap[p].gsyms
          /\ \A q \in Instances \ { p } : heap'[q] = heap[q]
    ]_vars

\* a VM has f on the trampoline of the last slot, and a registration of a
\* name that is no callable has just failed on it and installed nothing
C11_Witness ==
  /\ ret.op = "hook" /\ ret.val = 1
  /\ Loaded(ret.vmid)
  /\ LET p == all_virtual_machines[ret.vmid] IN
     /\ heap[p].gsyms["f"] = "h19"
     /\ heap[p].gsyms["x"] = "nil"
     /\ heap[p].gsyms["nope"] = "nil"
  /\ \E k \in RegSlots : python_funcs[k] = "x"

(***************************************************************************)
(* C12: buzz_script_destroy, after any loads (successful and failed) and   *)
(* steps, touches no VM instance that was destroyed before, destroys each  *)
(* registered instance that is still live exactly once, emitting a         *)
(* diagnostic for it first when it is not ready, goes through all of them  *)
(* and leaves the registry empty.                                          *)
(***************************************************************************)
C12_DestroyEachOnce ==
  [][ \A ub \in UbResults :
        buzz_script_destroy(ub) =>
          LET ids  == { i \in VmSlots : i < num_virtual_machines }
              live == { all_virtual_machines[i] : i \in ids }
          IN
          /\ \A i \in ids : ~heap[all_virtual_machines[i]].freed
          /\ ~crashed'
          /\ num_virtual_machines' = 0
          /\ \A p \in Instances :
               /\ heap'[p].freed
               /\ hist'[p].destroys = 1
               /\ p \in live <=> hist[p].destroys = 0
          /\ Len(diag') = Cardinality({ p \in live : heap[p].state # "ready" })
          /\ \A k \in 1 .. Len(diag') : heap[diag'[k].vm].state # "ready"
    ]_vars

(***************************************************************************)
(* C13: the ids 0 .. get_num_virtual_machines()-1 refer to VM instances    *)
(* that are live, no two of them to the same instance, a greater id to an  *)
(* instance allocated later; a load that succeeds returns its VM under the *)
(* greatest id, which no load since the last teardown was given before.    *)
(***************************************************************************)
C13_IdsFreshAndLive ==
  LET ids == 0 .. (num_virtual_machines - 1) IN
  /\ ids \subseteq VmSlots
  /\ \A i \in ids \cap VmSlots :
       /\ all_virtual_machines[i] # NULL
       /\ ~heap[all_virtual_machines[i]].freed
  /\ \A i, j \in ids \cap VmSlots :
       i < j => all_virtual_machines[i] < all_virtual_machines[j]
  /\ (ret.op = "set" /\ ret.val = 0) =>
       /\ ret.vmid = num_virtual_machines - 1
       /\ VmOf(ret.vmid) = Len(heap)

(***************************************************************************)
(* The id specification: VMs that load, add_neighbor and feed_buzz_message *)
(* calls on them with ids inside and outside of 0 .. 65535.                *)
(***************************************************************************)
\* calls of add_neighbor and feed_buzz_message in a run
MaxIdCalls == 3

IdCalls == SumAdds(Len(hist)) + SumFed(Len(hist))

AddId ==
  /\ IdCalls < MaxIdCalls
  /\ \E vmid \in LoadedIds, id \in NbrIds, pos \in NbrPos : add_neighbor(vmid, id, pos)

FeedId ==
  /\ IdCalls < MaxIdCalls
  /\ \E vmid \in LoadedIds, i \in 1 .. Len(MsgInputs) :
       feed_buzz_message(vmid, MsgInputs[i].sender, MsgInputs[i].message,
                         MsgInputs[i].size)

NextIds == LoadVm \/ AddId \/ FeedId

SpecIds == Init /\ [][NextIds]_vars

(***************************************************************************)
(* C14: add_neighbor(vmid, id, x, y, z) puts the coordinates into the      *)
(* neighbor table of the VM under id modulo 2^16, whatever integer id is,  *)
(* changes no other entry and reports no error; feed_buzz_message appends  *)
(* the message with the sender id modulo 2^16.  Two ids congruent modulo   *)
(* 2^16 so give the VM the same table and the same message.                *)
(***************************************************************************)
C14_IdsWrapTo16Bits ==
  [][ /\ \A vmid \in VmSlots, id \in NbrIds, pos \in NbrPos :
           add_neighbor(vmid, id, pos) =>
             LET p  == all_virtual_machines[vmid]
                 k  == id % 65536
                 t  == heap[p].neighbors
                 tt == heap'[p].neighbors
             IN
             /\ DOMAIN tt = DOMAIN t \cup { k }
             /\ tt[k] = pos
             /\ \A j \in DOMAIN t \ { k } : tt[j] = t[j]
             /\ ~crashed' /\ diag' = << >>
      /\ \A vmid \in VmSlots, i \in 1 .. Len(MsgInputs) :
           feed_buzz_message(vmid, MsgInputs[i].sender, MsgInputs[i].message,
                             MsgInputs[i].size) =>
             LET p == all_virtual_machines[vmid]
                 m == MsgInputs[i]
             IN
             /\ heap'[p].inmsgs =
                  Append(heap[p].inmsgs,
                         [ sender  |-> m.sender % 65536,
                           payload |-> SubSeq(m.message, 1, m.size) ])
             /\ ~crashed' /\ diag' = << >>
    ]_vars

\* a VM was given the neighbors -1 and 65537 and holds them as 65535 and 1,
\* and a VM was fed a message of sender 65539 and holds it as sent by 3
C14_Witness ==
  /\ \E p \in Instances :
       /\ Len(hist[p].adds) = 2
       /\ hist[p].adds[1].id = -1 /\ hist[p].adds[2].id = 65537
       /\ DOMAIN heap[p].neighbors = { 65535, 1 }
       /\ heap[p].neighbors[1] = hist[p].adds[2].pos
  /\ \E q \in Instances :
       /\ Len(hist[q].fed) >= 1
       /\ hist[q].fed[Len(hist[q].fed)].sender = 65539
       /\ heap[q].inmsgs[Len(heap[q].inmsgs)].sender = 3

(***************************************************************************)
(* C15: what a buzz_script_step call does in the VM is, in this order: the *)
(* top-level script body and then the init entry point, both only in the   *)
(* first step of the VM and never one without the other; then the draining *)
(* of the inbound queue, once; then the step entry point, once.  Nothing   *)
(* is drained after the step entry point: the messages fed before the call *)
(* are all handed to message processing by it.                             *)
(***************************************************************************)
C15_StepOrder ==
  \A p \in Instances :
    hist[p].steps >= 1 =>
      LET c   == hist[p].calls
          at(n) == { i \in 1 .. Len(c) : c[i] = n }
      IN
      /\ Cardinality(at("buzzvm_process_inmsgs")) = 1
      /\ Cardinality(at("step")) = 1
      /\ c[Len(c)] = "step"
      /\ c[Len(c) - 1] = "buzzvm_process_inmsgs"
      /\ Len(c) \in { 2, 4 }
      /\ Len(c) = 4 => /\ c[1] = "buzzvm_execute_script" /\ c[2] = "init"
                       /\ hist[p].steps = 1
      /\ (ret.op = "step" /\ all_virtual_machines[ret.vmid] = p) =>
           /\ heap[p].inmsgs = << >>
           /\ Len(hist[p].dlv) = Len(hist[p].fed)

\* a VM has been stepped twice: its second step ran no init sequence, and
\* drained a message before the step entry point of an echoing script sent
\* it back
C15_Witness ==
  \E vmid \in LoadedIds :
    LET p == all_virtual_machines[vmid] IN
    /\ hist[p].steps = 2
    /\ hist[p].calls = << "buzzvm_process_inmsgs", "step" >>
    /\ ret.op = "step" /\ ret.vmid = vmid
    /\ Len(hist[p].dlv) = 1
    /\ hist[p].sent = << hist[p].dlv[1].payload >>

(***************************************************************************)
(* C16: every diagnostic produced for a VM, by buzz_script_step or by      *)
(* buzz_script_destroy, is built from the debug table and the script name  *)
(* that were loaded together with that VM, and both exist at that moment.  *)
(***************************************************************************)
C16_DiagnosticOfItsVm ==
  \A k \in 1 .. Len(diag) :
    /\ diag[k].dbg.owner = diag[k].vm
    /\ diag[k].dbg.filled
    /\ diag[k].fname.owner = diag[k].vm
    /\ ~diag[k].fname.freed

(***************************************************************************)
(* C17: when the top-level script body or the init entry point traps in    *)
(* the first buzz_script_step of a VM, the VM is not ready afterwards, the *)
(* call emits a diagnostic for that VM before it returns, and the flag of  *)
(* the VM is set; no later step of the VM runs the init sequence again.    *)
(***************************************************************************)
C17_InitFaultReported ==
  [][ \A vmid \in VmSlots, s \in ExecScripts :
        buzz_script_step(vmid, s) =>
          LET p == all_virtual_machines[vmid] IN
          /\ ( /\ hist[p].steps = 0
               /\ hist'[p].inits = 1
               /\ heap[p].state = "ready"
               /\ s.fault \in { "top", "init" } )
             => /\ heap'[p].state # "ready"
                /\ vm_stepped'[vmid] = 1
                /\ ~crashed'
                /\ Len(diag') = 1
                /\ diag'[1].vm = p
          /\ hist[p].inits >= 1 => hist'[p].inits = hist[p].inits
    ]_vars

(***************************************************************************)
(* C18: buzz_script_destroy leaves every stepped-flag reset, and a loaded  *)
(* VM that has not been stepped yet finds the flag of its id reset, also   *)
(* when the id was used before the teardown: its first step runs the init  *)
(* sequence.                                                               *)
(***************************************************************************)
C18_UnsteppedAfterTeardown ==
  /\ ret.op = "destroy" => \A i \in VmSlots : vm_stepped[i] = 0
  /\ \A vmid \in LoadedIds :
       hist[all_virtual_machines[vmid]].steps = 0 => RunsInit(vmid)

(***************************************************************************)
(* C19: a register_hook call that fails leaves every hook slot bound to    *)
(* what it was bound to, so a script that calls a name installed on a slot *)
(* reaches a callable of the host and gets its value back.                 *)
(***************************************************************************)
C19_FailedRegisterKeepsSlot ==
  [][ /\ \A vmid \in VmSlots, slot \in SlotInputs, name \in NameInputs :
           (register_hook(vmid, slot, name) /\ ret'.val # 0)
             => python_funcs' = python_funcs
      /\ hook'.called =>
           /\ hook'.func \in { "f", "g" }
           /\ Len(hook'.pushed) = 1
           /\ ~crashed'
    ]_vars

(***************************************************************************)
(* The size specification: VMs that load, steps of scripts that send       *)
(* payloads of different sizes, get_next_message and get_message_size, and *)
(* between the two the calls that take no message: are_more_messages,      *)
(* feed_buzz_message, add_neighbor, reset_neighbors, set_abs_pos, a step.  *)
(***************************************************************************)
\* calls between get_next_message and get_message_size in a run
MaxBetween == 1

\* the script of the VM loaded under vmid: under an even id it sends one
\* payload of 2 bytes in each step, under an odd id one of 3 bytes and one of
\* 1 byte
SizeScript(vmid) ==
  [ fault |-> "none", name |-> "", args |-> << >>, result |-> NoValue,
    echo |-> FALSE,
    emit |-> IF vmid % 2 = 0 THEN << << 5, 0 >> >> ELSE << << 1, 2, 3 >>, << 4 >> >>,
    ub |-> "crash" ]

StepSize ==
  /\ SumSteps(Len(hist)) < MaxStepsMsg
  /\ \E vmid \in LoadedIds : buzz_script_step(vmid, SizeScript(vmid))

GetSize == get_message_size

RECURSIVE SumBetween(_)
\* the feed, neighbor and position calls made on the instances 1 .. n
SumBetween(n) ==
  IF n = 0 THEN 0
  ELSE Len(hist[n].fed) + Len(hist[n].adds)
       + (IF hist[n].reset THEN 1 ELSE 0)
       + (IF heap[n].position # << >> THEN 1 ELSE 0)
       + SumBetween(n - 1)

\* the host has taken a message and makes another call before it asks for
\* the size of that message
Taken == ret.op = "next" /\ SumBetween(Len(hist)) < MaxBetween

MoreAfter == ret.op = "next" /\ \E vmid \in LoadedIds : are_more_messages(vmid)

FeedAfter ==
  /\ Taken
  /\ \E vmid \in LoadedIds :
       feed_buzz_message(vmid, MsgInputs[2].sender, MsgInputs[2].message,
                         MsgInputs[2].size)

AddAfter ==
  /\ Taken
  /\ \E vmid \in LoadedIds : add_neighbor(vmid, 1, << 1, 2, 3 >>)

ResetAfter ==
  /\ Taken
  /\ \E vmid \in LoadedIds : reset_neighbors(vmid)

PosAfter ==
  /\ Taken
  /\ \E vmid \in LoadedIds : set_abs_pos(vmid, << 1, 2, 3 >>)

NextSize ==
  \/ LoadVm \/ StepSize \/ NextMessage \/ GetSize
  \/ MoreAfter \/ FeedAfter \/ AddAfter \/ ResetAfter \/ PosAfter

SpecSize == Init /\ [][NextSize]_vars

(***************************************************************************)
(* C20: the size get_message_size reports is one value of the process: a   *)
(* get_next_message call on any VM sets it to the length of the payload it *)
(* returns, no other call changes it (are_more_messages, buzz_script_step, *)
(* feed_buzz_message, the neighbor and position calls, a load), and        *)
(* get_message_size returns it.                                            *)
(***************************************************************************)
C20_SizeOfLastMessage ==
  [][ /\ message_size' =
           IF \E vmid \in VmSlots : get_next_message(vmid)
           THEN Len(ret'.data)
           ELSE message_size
      /\ ret'.op = "size" => ret'.val = message_size'
    ]_vars

\* messages were taken from two VMs, 3 bytes from one and 2 bytes from the
\* other, the position of the first was set after the last of them was
\* taken, and get_message_size reports 2
C20_Witness ==
  /\ ret.op = "size" /\ ret.val = 2
  /\ \E p, q \in Instances :
       /\ p # q
       /\ hist[p].got = << << 1, 2, 3 >> >>
       /\ hist[q].got = << << 5, 0 >> >>
       /\ heap[q].outmsgs = << >>
       /\ heap[p].position = << 1, 2, 3 >>

====
